---- MODULE Spec2Model ----
(***************************************************************************)
(* Model of the chargeback store (package store, BoltDB-backed) of         *)
(* arkantrust/idempotency_example: the bucket of encoded records, the wall *)
(* clock the store stamps records with, and the Create / Update / Delete / *)
(* Get / List operations, each one BoltDB transaction; above it the HTTP   *)
(* handlers, the server process, and the add dialog's retried mutation.    *)
(***************************************************************************)
EXTENDS Integers, Sequences, FiniteSets, TLC

VARIABLES
    db,     \* the committed "chargebacks" bucket: <<key, value>> pairs in key order
    wall,   \* the reading time.Now().UTC() returns at this moment
    ret,    \* the call that returned last, with the values it returned
    prev,   \* history: an earlier call that committed, which a client may re-issue
    calls,  \* per goroutine: the store call it is inside of
    tx,     \* per goroutine: the closure's outcome inside its open write transaction
    out,    \* per goroutine: what its call returned
    rwlock, \* the goroutine holding BoltDB's writer lock
    view,   \* the open read transaction: its call, its snapshot, its cursor
    resp,   \* the HTTP response written last, with the request it answers
    submit, \* the add dialog's mutation: its variables, failures and state
    proc    \* the server process: where main is, and the engine handle

vars ==
    <<db, wall, ret, prev, calls, tx, out, rwlock, view, resp, submit, proc>>

\* The state of the goroutines blocked in or running a transaction.
flight == <<calls, tx, out, rwlock, view>>

-----------------------------------------------------------------------------
(* Bounds and input domains *)

\* Largest wall-clock reading.
MaxTime == 2

Times == 1..MaxTime

\* Keys handed to the store. "" is a key BoltDB rejects on Put.
IDs == {"", "a", "b"}

\* Goroutines calling the store concurrently.
Goroutines == {"g1", "g2", "g3"}

\* Byte order of the keys, the order BoltDB keeps a bucket in.
KeyOrder == <<"", "a", "b">>

\* Go's nil: no value under a key, no error, no record returned.
Nil == "nil"

ErrNotFound == "chargeback not found"

\* bolt.ErrKeyRequired, returned by Bucket.Put for an empty key.
ErrKeyRequired == "key required"

\* models.Chargeback
Chargeback(id, amount, currency, reason, createdAt, updatedAt) ==
    [ID |-> id, Amount |-> amount, Currency |-> currency, Reason |-> reason,
     CreatedAt |-> createdAt, UpdatedAt |-> updatedAt]

\* The zero value of models.Chargeback ("var result models.Chargeback").
ZeroChargeback == Chargeback("", 0, "", "", 0, 0)

\* Request bodies as the callers decode them into a models.Chargeback: any
\* of the six fields may be set by the client. Pairwise they differ in one
\* mutable field only, and they carry zero and empty values.
Bodies ==
    { Chargeback("",  500, "EUR", "fraud", 0, 0),
      Chargeback("b", 0,   "EUR", "fraud", 7, 7),
      Chargeback("",  500, "",    "fraud", 0, 7),
      Chargeback("a", 500, "EUR", "",      7, 0) }

-----------------------------------------------------------------------------
(* Codec: encoding/json on models.Chargeback *)

\* json.Marshal: the six fields in declaration order.
Marshal(c) == <<c.ID, c.Amount, c.Currency, c.Reason, c.CreatedAt, c.UpdatedAt>>

\* json.Unmarshal into a zero Chargeback.
Unmarshal(v) == Chargeback(v[1], v[2], v[3], v[4], v[5], v[6])

-----------------------------------------------------------------------------
(* The bucket: bolt.Bucket Get / Put / Delete / ForEach *)

Rank(k) == CHOOSE i \in 1..Len(KeyOrder) : KeyOrder[i] = k

BucketGet(b, k) ==
    IF \E i \in 1..Len(b) : b[i][1] = k
    THEN b[CHOOSE i \in 1..Len(b) : b[i][1] = k][2]
    ELSE Nil

KeyLess(e, k) == Rank(e[1]) < Rank(k)

KeyGreater(e, k) == Rank(e[1]) > Rank(k)

\* A bucket that keeps its keys in the order they were first put.
BucketPutAppend(b, k, v) ==
    IF k = ""
    THEN [err |-> ErrKeyRequired, b |-> b]
    ELSE [err |-> Nil,
          b   |-> IF \E i \in 1..Len(b) : b[i][1] = k
                  THEN [i \in 1..Len(b) |->
                          IF b[i][1] = k THEN <<k, v>> ELSE b[i]]
                  ELSE Append(b, <<k, v>>)]

\* Bucket.Put: rejects the empty key, otherwise inserts in key order,
\* replacing the value already under the key.
BucketPut(b, k, v) ==
    IF k = ""
    THEN [err |-> ErrKeyRequired, b |-> b]
    ELSE [err |-> Nil,
          b   |-> SelectSeq(b, LAMBDA e : KeyLess(e, k))
                  \o << <<k, v>> >>
                  \o SelectSeq(b, LAMBDA e : KeyGreater(e, k))]

\* Bucket.Delete: a no-op when the key is not there; never an error here.
BucketDelete(b, k) == SelectSeq(b, LAMBDA e : e[1] # k)

-----------------------------------------------------------------------------
(* The closures the store runs inside db.Update / db.View.  Each yields the *)
(* transaction's working bucket tx, the closure's captured result and flag, *)
(* and the error the closure returns.                                       *)

FnResult(bucket, result, flag, err) ==
    [tx |-> bucket, result |-> result, flag |-> flag, err |-> err]

\* A check that never finds the key.
KeyNeverExists(existing) == FALSE

\* "if existing != nil"
KeyExists(existing) == existing # Nil

\* Stamping CreatedAt only, leaving the candidate's UpdatedAt.
StampCreatedOnly(c, now) == [c EXCEPT !.CreatedAt = now]

\* Stamping only the timestamps the candidate left zero.
StampIfZero(c, now) ==
    [c EXCEPT !.CreatedAt = IF @ = 0 THEN now ELSE @,
              !.UpdatedAt = IF @ = 0 THEN now ELSE @]

\* "now := time.Now().UTC(); c.CreatedAt = now; c.UpdatedAt = now"
Stamp(c, now) == [c EXCEPT !.CreatedAt = now, !.UpdatedAt = now]

\* A Create that hands the candidate back when the key exists.
CreateFnEcho(b, c, now) ==
    LET existing == BucketGet(b, c.ID) IN
    IF KeyExists(existing)
    THEN FnResult(b, c, FALSE, Nil)
    ELSE LET stamped == Stamp(c, now)
             put     == BucketPut(b, c.ID, Marshal(stamped))
         IN  FnResult(put.b, stamped, TRUE, put.err)

CreateFn(b, c, now) ==
    LET existing == BucketGet(b, c.ID) IN
    IF KeyExists(existing)
    THEN FnResult(b, Unmarshal(existing), FALSE, Nil)
    ELSE LET stamped == Stamp(c, now)
             put     == BucketPut(b, c.ID, Marshal(stamped))
         IN  FnResult(put.b, stamped, TRUE, put.err)

\* No check: every Update of a present key writes.
SameNever(existing, incoming) == FALSE

\* A check comparing the whole structs.
SameStruct(existing, incoming) == existing = incoming

\* The write-avoidance check.
SameMutable(existing, incoming) ==
    /\ existing.Amount = incoming.Amount
    /\ existing.Currency = incoming.Currency
    /\ existing.Reason = incoming.Reason

\* An update replacing the whole struct by the payload, ID included.
ApplyUpdateWhole(existing, incoming, now) ==
    [incoming EXCEPT !.CreatedAt = existing.CreatedAt, !.UpdatedAt = now]

\* An update that takes only the payload's non-zero, non-empty fields.
ApplyUpdatePatch(existing, incoming, now) ==
    [existing EXCEPT
       !.Amount = IF incoming.Amount = 0 THEN @ ELSE incoming.Amount,
       !.Currency = IF incoming.Currency = "" THEN @ ELSE incoming.Currency,
       !.Reason = IF incoming.Reason = "" THEN @ ELSE incoming.Reason,
       !.UpdatedAt = now]

\* An update stamping both timestamps.
ApplyUpdateRestamp(existing, incoming, now) ==
    [existing EXCEPT !.Amount = incoming.Amount,
                     !.Currency = incoming.Currency,
                     !.Reason = incoming.Reason,
                     !.CreatedAt = now,
                     !.UpdatedAt = now]

\* "At least one field changed - apply the update and bump UpdatedAt."
ApplyUpdate(existing, incoming, now) ==
    [existing EXCEPT !.Amount = incoming.Amount,
                     !.Currency = incoming.Currency,
                     !.Reason = incoming.Reason,
                     !.UpdatedAt = now]

\* An Update that writes under the ID the payload carries, when it has one.
UpdateFnPutByPayloadID(b, id, incoming, now) ==
    LET existingBytes == BucketGet(b, id) IN
    IF existingBytes = Nil
    THEN FnResult(b, ZeroChargeback, FALSE, ErrNotFound)
    ELSE LET existing == Unmarshal(existingBytes) IN
         IF SameMutable(existing, incoming)
         THEN FnResult(b, existing, FALSE, Nil)
         ELSE LET updated == ApplyUpdate(existing, incoming, now)
                  key     == IF incoming.ID = "" THEN id ELSE incoming.ID
                  put     == BucketPut(b, key, Marshal(updated))
              IN  FnResult(put.b, updated, TRUE, put.err)

\* An Update that creates the record when the key is absent.
UpdateFnUpsert(b, id, incoming, now) ==
    LET existingBytes == BucketGet(b, id) IN
    IF existingBytes = Nil
    THEN LET made == Stamp([incoming EXCEPT !.ID = id], now)
             put  == BucketPut(b, id, Marshal(made))
         IN  FnResult(put.b, made, TRUE, put.err)
    ELSE LET existing == Unmarshal(existingBytes) IN
         IF SameMutable(existing, incoming)
         THEN FnResult(b, existing, FALSE, Nil)
         ELSE LET updated == ApplyUpdate(existing, incoming, now)
                  put     == BucketPut(b, id, Marshal(updated))
              IN  FnResult(put.b, updated, TRUE, put.err)

UpdateFn(b, id, incoming, now) ==
    LET existingBytes == BucketGet(b, id) IN
    IF existingBytes = Nil
    THEN FnResult(b, ZeroChargeback, FALSE, ErrNotFound)
    ELSE LET existing == Unmarshal(existingBytes) IN
         IF SameMutable(existing, incoming)
         THEN FnResult(b, existing, FALSE, Nil)
         ELSE LET updated == ApplyUpdate(existing, incoming, now)
                  put     == BucketPut(b, id, Marshal(updated))
              IN  FnResult(put.b, updated, TRUE, put.err)

\* A Delete that leaves a tombstone under the key.
DeleteFnTombstone(b, id) ==
    IF BucketGet(b, id) = Nil
    THEN FnResult(b, ZeroChargeback, FALSE, Nil)
    ELSE FnResult(BucketPut(b, id, Marshal(ZeroChargeback)).b,
                  ZeroChargeback, FALSE, Nil)

\* A Delete that reports a missing key.
DeleteFnStrict(b, id) ==
    IF BucketGet(b, id) = Nil
    THEN FnResult(b, ZeroChargeback, FALSE, ErrNotFound)
    ELSE FnResult(BucketDelete(b, id), ZeroChargeback, FALSE, Nil)

DeleteFn(b, id) == FnResult(BucketDelete(b, id), ZeroChargeback, FALSE, Nil)

GetFn(b, id) ==
    LET v == BucketGet(b, id) IN
    IF v = Nil
    THEN FnResult(b, ZeroChargeback, FALSE, ErrNotFound)
    ELSE FnResult(b, Unmarshal(v), FALSE, Nil)

\* A Go slice: nil or not, and its elements.
Slice(isNil, elems) == [nil |-> isNil, elems |-> elems]

\* "var items []models.Chargeback" after b.ForEach appended every decoded
\* value in key order: still nil when the bucket has no key.
ForEachAppend(b) ==
    Slice(Len(b) = 0, [i \in 1..Len(b) |-> Unmarshal(b[i][2])])

\* A List that returns the slice as ForEach left it.
ListItemsAsAppended(b) == ForEachAppend(b)

\* "Return an empty slice rather than nil".
ListItems(b) ==
    LET items == ForEachAppend(b) IN
    IF items.nil THEN Slice(FALSE, <<>>) ELSE items

\* The elements of the slice List returns.
ListFn(b) == ListItems(b).elems

-----------------------------------------------------------------------------
(* db.Update and the store methods' return statements *)

\* A db.Update that keeps the working bucket whatever fn returned.
DbUpdateKeep(b, r) == r.tx

\* db.Update(fn): commit the working bucket, or roll back when fn fails.
DbUpdate(b, r) == IF r.err # Nil THEN b ELSE r.tx

Call(op, id, body) == [op |-> op, id |-> id, body |-> body]

NoCall == Call("none", "", ZeroChargeback)

Return(call, rec, flag, err, items) ==
    [call |-> call, rec |-> rec, flag |-> flag, err |-> err, items |-> items]

\* A return that hands the flag back as the closure left it.
StoreReturnFlagAsSet(call, r) ==
    IF r.err # Nil
    THEN Return(call, Nil, r.flag, r.err, Nil)
    ELSE Return(call, r.result, r.flag, Nil, Nil)

\* "if err != nil { return nil, false, err }; return &result, flag, nil"
StoreReturn(call, r) ==
    IF r.err # Nil
    THEN Return(call, Nil, FALSE, r.err, Nil)
    ELSE Return(call, r.result, r.flag, Nil, Nil)

\* Delete returns the error only.
DeleteReturn(call, r) == Return(call, Nil, FALSE, r.err, Nil)

ListReturn(call, items) == Return(call, Nil, FALSE, Nil, items)

-----------------------------------------------------------------------------
(* The store's operations, one transaction each *)

NoReturn == Return(NoCall, Nil, FALSE, Nil, Nil)

\* A goroutine's call, with the history of whether the key was absent from
\* the committed bucket when the call was made.
Pending(call, absent) == [call |-> call, absent |-> absent]

NoPending == Pending(NoCall, FALSE)

NoTx == FnResult(<<>>, ZeroChargeback, FALSE, "no transaction")

NoGoroutine == "none"

\* A read transaction of db.View: the call it serves, the bucket as it was
\* committed when the transaction began, the rank of the last key ForEach
\* visited, and the items List has appended so far.
View(call, snap, pos, items) ==
    [call |-> call, snap |-> snap, pos |-> pos, items |-> items]

NoView == View(NoCall, <<>>, 0, <<>>)

\* A request body: whether json.Decode accepts it, and what it decodes to.
Payload(ok, body) == [ok |-> ok, body |-> body]

\* The request bodies sent: every body that decodes, and one that does not.
Payloads ==
    {Payload(TRUE, body) : body \in Bodies} \cup {Payload(FALSE, ZeroChargeback)}

\* An HTTP request as the handler sees it: method, r.PathValue("id"), body.
Request(method, id, payload) ==
    [method |-> method, id |-> id, payload |-> payload]

\* What the handler wrote to the http.ResponseWriter: the status code, the
\* X-Idempotency-Write header ("" when not set) and the JSON body, which is
\* an error message, one encoded record, the encoded records of a list, or
\* the deleted id.
Response(req, status, write, error, item, items, deleted) ==
    [req |-> req, status |-> status, write |-> write, error |-> error,
     item |-> item, items |-> items, deleted |-> deleted]

\* The JSON body's record when the body carries none.
NoItem == Marshal(ZeroChargeback)

NoResponse ==
    Response(Request("none", "", Payload(FALSE, ZeroChargeback)),
             0, "", "", NoItem, <<>>, "")

\* The mutation of the add dialog: how many submits there were, the
\* variables {id, input} of the last one, its failureCount and status, and
\* the history of the body of the first 201 any of its attempts produced.
Mutation(n, id, payload, failures, state, first) ==
    [n |-> n, id |-> id, payload |-> payload, failures |-> failures,
     state |-> state, first |-> first]

NoSubmit == Mutation(0, "", Payload(FALSE, ZeroChargeback), 0, "idle", NoItem)

\* The server process: pc is "main" before store.New, "serve" inside
\* http.ListenAndServe, "exit" when the process has ended; handle is the
\* *bolt.DB: "none" before bolt.Open, then "open", then "closed".
Process(pc, handle) == [pc |-> pc, handle |-> handle]

\* main has opened the store and is serving requests.
Serving == Process("serve", "open")

Init ==
    /\ db = <<>>
    /\ wall = 1
    /\ ret = NoReturn
    /\ prev = NoCall
    /\ calls = [g \in Goroutines |-> NoPending]
    /\ tx = [g \in Goroutines |-> NoTx]
    /\ out = [g \in Goroutines |-> NoReturn]
    /\ rwlock = NoGoroutine
    /\ view = NoView
    /\ resp = NoResponse
    /\ submit = NoSubmit
    /\ proc = Serving

\* Store.Create(c) with c.ID = id.
Create(id, body) ==
    LET c == [body EXCEPT !.ID = id]
        r == CreateFn(db, c, wall)
    IN  /\ db' = DbUpdate(db, r)
        /\ ret' = StoreReturn(Call("Create", id, body), r)
        /\ UNCHANGED <<wall, prev, flight, resp, submit, proc>>

\* Store.Update(id, incoming).
Update(id, incoming) ==
    LET r == UpdateFn(db, id, incoming, wall)
    IN  /\ db' = DbUpdate(db, r)
        /\ ret' = StoreReturn(Call("Update", id, incoming), r)
        /\ UNCHANGED <<wall, prev, flight, resp, submit, proc>>

\* Store.Delete(id).
Delete(id) ==
    LET r == DeleteFn(db, id)
    IN  /\ db' = DbUpdate(db, r)
        /\ ret' = DeleteReturn(Call("Delete", id, ZeroChargeback), r)
        /\ UNCHANGED <<wall, prev, flight, resp, submit, proc>>

\* Store.Get(id).
Get(id) ==
    /\ ret' = StoreReturn(Call("Get", id, ZeroChargeback), GetFn(db, id))
    /\ UNCHANGED <<db, wall, prev, flight, resp, submit, proc>>

\* Store.List().
List ==
    /\ ret' = ListReturn(Call("List", "", ZeroChargeback), ListFn(db))
    /\ UNCHANGED <<db, wall, prev, flight, resp, submit, proc>>

\* The wall clock advances.
Tick ==
    /\ wall < MaxTime
    /\ wall' = wall + 1
    /\ UNCHANGED <<db, ret, prev, flight, resp, submit, proc>>

\* The wall clock is set back (clock synchronisation).
ClockStepBack ==
    /\ \E t \in Times : t < wall /\ wall' = t
    /\ UNCHANGED <<db, ret, prev, flight, resp, submit, proc>>

Next ==
    \/ \E id \in IDs, body \in Bodies : Create(id, body)
    \/ \E id \in IDs, body \in Bodies : Update(id, body)
    \/ \E id \in IDs : Delete(id)
    \/ \E id \in IDs : Get(id)
    \/ List
    \/ Tick
    \/ ClockStepBack

Spec == Init /\ [][Next]_vars

-----------------------------------------------------------------------------
(* Retries: a client whose response was lost re-issues a call it made       *)
(* before, between the calls of other clients. The clock stands still here: *)
(* what a re-issued call does depends on the stored fields only.            *)

WriteOps == {"Create", "Update", "Delete"}

\* History: note that the call which returned last committed, so that a
\* later step may be recognised as a re-issue of it.
Remember ==
    /\ ret.call.op \in WriteOps
    /\ ret.err = Nil
    /\ prev # ret.call
    /\ prev' = ret.call
    /\ UNCHANGED <<db, wall, ret, flight, resp, submit, proc>>

NextRetry ==
    \/ \E id \in IDs, body \in Bodies : Create(id, body)
    \/ \E id \in IDs, body \in Bodies : Update(id, body)
    \/ \E id \in IDs : Delete(id)
    \/ Remember

SpecRetry == Init /\ [][NextRetry]_vars

-----------------------------------------------------------------------------
(* Concurrent callers: goroutines blocked on, holding and releasing the     *)
(* writer lock that db.Update takes around the closure and the commit.      *)

\* The keys the concurrent callers contend for.
RaceIDs == {"a"}

\* The closure of the call's store method, run on bucket b.
RunFn(b, call, now) ==
    CASE call.op = "Create" -> CreateFn(b, [call.body EXCEPT !.ID = call.id], now)
      [] call.op = "Update" -> UpdateFn(b, call.id, call.body, now)
      [] call.op = "Delete" -> DeleteFn(b, call.id)

\* The values the call's store method returns.
RunReturn(call, r) ==
    IF call.op = "Delete" THEN DeleteReturn(call, r) ELSE StoreReturn(call, r)

\* Goroutine g calls Store.Create.
Invoke(g, id, body) ==
    /\ calls[g] = NoPending
    /\ calls' = [calls EXCEPT
                   ![g] = Pending(Call("Create", id, body), BucketGet(db, id) = Nil)]
    /\ UNCHANGED <<db, wall, ret, prev, tx, out, rwlock, view, resp, submit, proc>>

\* A transaction that runs the closure without waiting for the writer lock.
BeginUnlocked(g) ==
    /\ calls[g] # NoPending
    /\ tx[g] = NoTx
    /\ out[g] = NoReturn
    /\ rwlock' = g
    /\ tx' = [tx EXCEPT ![g] = RunFn(db, calls[g].call, wall)]
    /\ UNCHANGED <<db, wall, ret, prev, calls, out, view, resp, submit, proc>>

\* db.Update takes the writer lock and runs the closure on the bucket.
Begin(g) ==
    /\ calls[g] # NoPending
    /\ tx[g] = NoTx
    /\ out[g] = NoReturn
    /\ rwlock = NoGoroutine
    /\ rwlock' = g
    /\ tx' = [tx EXCEPT ![g] = RunFn(db, calls[g].call, wall)]
    /\ UNCHANGED <<db, wall, ret, prev, calls, out, view, resp, submit, proc>>

\* db.Update commits or rolls back, releases the lock, and the method returns.
Commit(g) ==
    /\ tx[g] # NoTx
    /\ db' = DbUpdate(db, tx[g])
    /\ out' = [out EXCEPT ![g] = RunReturn(calls[g].call, tx[g])]
    /\ tx' = [tx EXCEPT ![g] = NoTx]
    /\ rwlock' = NoGoroutine
    /\ UNCHANGED <<wall, ret, prev, calls, view, resp, submit, proc>>

NextConc ==
    \/ \E g \in Goroutines, id \in RaceIDs, body \in Bodies : Invoke(g, id, body)
    \/ \E g \in Goroutines : Begin(g)
    \/ \E g \in Goroutines : Commit(g)
    \/ Tick
    \/ ClockStepBack

SpecConc == Init /\ [][NextConc]_vars

\* The record the concurrent Updates meet: one Create on the empty store,
\* its whole transaction in one step while no goroutine holds the writer lock.
Seed(id, body) == db = <<>> /\ rwlock = NoGoroutine /\ Create(id, body)

\* Goroutine g calls Store.Update.
InvokeUpdate(g, id, body) ==
    /\ calls[g] = NoPending
    /\ calls' = [calls EXCEPT
                   ![g] = Pending(Call("Update", id, body), BucketGet(db, id) = Nil)]
    /\ UNCHANGED <<db, wall, ret, prev, tx, out, rwlock, view, resp, submit, proc>>

\* The goroutines that call Update.
Updaters == {"g1", "g2"}

NextConcUpdate ==
    \/ \E id \in RaceIDs, body \in Bodies : Seed(id, body)
    \/ \E g \in Updaters, id \in RaceIDs, body \in Bodies :
         InvokeUpdate(g, id, body)
    \/ \E g \in Updaters : Begin(g)
    \/ \E g \in Updaters : Commit(g)
    \/ Tick
    \/ ClockStepBack

SpecConcUpdate == Init /\ [][NextConcUpdate]_vars

-----------------------------------------------------------------------------
(* Failing transactions: besides the closure's own errors (ErrNotFound, the *)
(* engine's refusal of the empty key) the engine may fail to commit, and    *)
(* db.Update then rolls back and returns the commit's error. The clock      *)
(* stands still here: what a failed call leaves behind does not depend on   *)
(* the timestamps.                                                          *)

ErrCommit == "commit failed"

\* What db.Update hands to the store method when the closure returned nil
\* and tx.Commit failed: the closure's assignments with the commit's error.
FailCommit(r) == IF r.err = Nil THEN [r EXCEPT !.err = ErrCommit] ELSE r

\* Store.Create(c), the commit failing.
CreateFails(id, body) ==
    LET c == [body EXCEPT !.ID = id]
        r == FailCommit(CreateFn(db, c, wall))
    IN  /\ db' = DbUpdate(db, r)
        /\ ret' = StoreReturn(Call("Create", id, body), r)
        /\ UNCHANGED <<wall, prev, flight, resp, submit, proc>>

\* Store.Update(id, incoming), the commit failing.
UpdateFails(id, incoming) ==
    LET r == FailCommit(UpdateFn(db, id, incoming, wall))
    IN  /\ db' = DbUpdate(db, r)
        /\ ret' = StoreReturn(Call("Update", id, incoming), r)
        /\ UNCHANGED <<wall, prev, flight, resp, submit, proc>>

\* Store.Delete(id), the commit failing.
DeleteFails(id) ==
    LET r == FailCommit(DeleteFn(db, id))
    IN  /\ db' = DbUpdate(db, r)
        /\ ret' = DeleteReturn(Call("Delete", id, ZeroChargeback), r)
        /\ UNCHANGED <<wall, prev, flight, resp, submit, proc>>

NextFault ==
    \/ \E id \in IDs, body \in Bodies : Create(id, body)
    \/ \E id \in IDs, body \in Bodies : Update(id, body)
    \/ \E id \in IDs : Delete(id)
    \/ \E id \in IDs : Get(id)
    \/ List
    \/ \E id \in IDs, body \in Bodies : CreateFails(id, body)
    \/ \E id \in IDs, body \in Bodies : UpdateFails(id, body)
    \/ \E id \in IDs : DeleteFails(id)

SpecFault == Init /\ [][NextFault]_vars

-----------------------------------------------------------------------------
(* Readers beside writers: db.View opens a read transaction, the closure    *)
(* of Get or List reads through it (List one key at a time), and writers    *)
(* commit in between. The clock stands still here.                          *)

\* A read transaction that reads the bucket as committed at this moment.
TxBucketLive(v, committed) == committed

\* tx.Bucket in a read transaction: the bucket as of the transaction's start.
TxBucket(v, committed) == v.snap

\* The cursor of ForEach: is there a key after the one of rank pos?
HasNext(b, pos) == \E i \in 1..Len(b) : Rank(b[i][1]) > pos

\* The entry with the least key after the one of rank pos.
NextEntry(b, pos) ==
    b[CHOOSE i \in 1..Len(b) :
        /\ Rank(b[i][1]) > pos
        /\ \A j \in 1..Len(b) : Rank(b[j][1]) > pos => i <= j]

\* Store.Get or Store.List enters db.View.
BeginView(op, id) ==
    /\ view = NoView
    /\ view' = View(Call(op, id, ZeroChargeback), db, 0, <<>>)
    /\ UNCHANGED <<db, wall, ret, prev, calls, tx, out, rwlock, resp, submit, proc>>

\* Get's closure runs, the transaction ends and Store.Get returns.
GetView ==
    /\ view.call.op = "Get"
    /\ ret' = StoreReturn(view.call, GetFn(TxBucket(view, db), view.call.id))
    /\ view' = NoView
    /\ UNCHANGED <<db, wall, prev, calls, tx, out, rwlock, resp, submit, proc>>

\* One call of List's ForEach callback: decode the next value and append it.
ForEachStep ==
    /\ view.call.op = "List"
    /\ HasNext(TxBucket(view, db), view.pos)
    /\ LET e == NextEntry(TxBucket(view, db), view.pos)
       IN  view' = [view EXCEPT !.pos = Rank(e[1]),
                                !.items = Append(@, Unmarshal(e[2]))]
    /\ UNCHANGED <<db, wall, ret, prev, calls, tx, out, rwlock, resp, submit, proc>>

\* ForEach is past the last key: the transaction ends and Store.List returns.
ListView ==
    /\ view.call.op = "List"
    /\ ~HasNext(TxBucket(view, db), view.pos)
    /\ ret' = ListReturn(view.call, view.items)
    /\ view' = NoView
    /\ UNCHANGED <<db, wall, prev, calls, tx, out, rwlock, resp, submit, proc>>

\* The keys the readers and the writers meet on.
ViewIDs == {"a", "b"}

NextView ==
    \/ \E id \in ViewIDs, body \in Bodies : Create(id, body)
    \/ \E id \in ViewIDs, body \in Bodies : Update(id, body)
    \/ \E id \in ViewIDs : Delete(id)
    \/ \E id \in ViewIDs : BeginView("Get", id)
    \/ BeginView("List", "")
    \/ GetView
    \/ ForEachStep
    \/ ListView

SpecView == Init /\ [][NextView]_vars

-----------------------------------------------------------------------------
(* The life of one key: created, updated, deleted and created again, under  *)
(* a moving clock, with the history of a Create that committed earlier.     *)

\* The key whose life is followed.
CycleIDs == {"a"}

NextCycle ==
    \/ \E id \in CycleIDs, body \in Bodies : Create(id, body)
    \/ \E id \in CycleIDs, body \in Bodies : Update(id, body)
    \/ \E id \in CycleIDs : Delete(id)
    \/ Remember
    \/ Tick
    \/ ClockStepBack

SpecCycle == Init /\ [][NextCycle]_vars

-----------------------------------------------------------------------------
(* The HTTP handlers (package handlers): each request is decoded, handed to *)
(* the store, and answered from what the store returned. The mux delivers   *)
(* any path value; the engine may fail to commit.                           *)

\* writeError: the status and {"error": msg}.
WriteError(req, status, msg) ==
    Response(req, status, "", msg, NoItem, <<>>, "")

\* writeJSON of one record, with the X-Idempotency-Write header as set.
WriteJSON(req, status, write, rec) ==
    Response(req, status, write, "", Marshal(rec), <<>>, "")

\* A create that answers 201 Created whenever the store returned a record.
CreateResponseAlwaysCreated(req, sr) ==
    IF sr.err # Nil
    THEN WriteError(req, 500, "failed to create chargeback")
    ELSE WriteJSON(req, 201, "", sr.rec)

\* Handler.create after h.store.Create returned sr.
CreateResponse(req, sr) ==
    IF sr.err # Nil
    THEN WriteError(req, 500, "failed to create chargeback")
    ELSE IF sr.flag
         THEN WriteJSON(req, 201, "", sr.rec)
         ELSE WriteJSON(req, 200, "", sr.rec)

\* An update that sets the header from the error alone.
UpdateResponseAlwaysWritten(req, sr) ==
    IF sr.err # Nil
    THEN IF sr.err = ErrNotFound
         THEN WriteError(req, 404, "chargeback not found")
         ELSE WriteError(req, 500, "failed to update chargeback")
    ELSE WriteJSON(req, 200, "true", sr.rec)

\* Handler.update after h.store.Update returned sr.
UpdateResponse(req, sr) ==
    IF sr.err # Nil
    THEN IF sr.err = ErrNotFound
         THEN WriteError(req, 404, "chargeback not found")
         ELSE WriteError(req, 500, "failed to update chargeback")
    ELSE WriteJSON(req, 200, IF sr.flag THEN "true" ELSE "false", sr.rec)

\* A delete that answers 204 No Content.
DeleteResponseNoContent(req, sr) ==
    IF sr.err # Nil
    THEN WriteError(req, 500, "failed to delete chargeback")
    ELSE Response(req, 204, "", "", NoItem, <<>>, "")

\* Handler.delete after h.store.Delete returned sr.
DeleteResponse(req, sr) ==
    IF sr.err # Nil
    THEN WriteError(req, 500, "failed to delete chargeback")
    ELSE Response(req, 200, "", "", NoItem, <<>>, req.id)

\* Handler.list after h.store.List returned items.
ListResponse(req, items) ==
    Response(req, 200, "", "", NoItem,
             [i \in 1..Len(items) |-> Marshal(items[i])], "")

\* The handler answers 400 without calling the store.
BadRequest(req, msg) ==
    /\ resp' = WriteError(req, 400, msg)
    /\ UNCHANGED <<db, wall, ret, prev, flight, proc>>

\* A handler that passes the decoded body on with the id the client put in it.
BodyAsSent(id, payload) == payload.body

\* "body.ID = id": the decoded body, its ID overridden by the path value.
BodyWithPathID(id, payload) == [payload.body EXCEPT !.ID = id]

\* Handler.create, answering POST /chargebacks/{id}
ServeCreate(id, payload, fail) ==
    LET req  == Request("POST", id, payload)
        body == BodyWithPathID(id, payload)
        fn   == CreateFn(db, body, wall)
        r    == IF fail THEN FailCommit(fn) ELSE fn
        sr   == StoreReturn(Call("Create", id, payload.body), r)
    IN  IF id = "" THEN BadRequest(req, "missing id in path")
        ELSE IF ~payload.ok THEN BadRequest(req, "invalid JSON body")
        ELSE /\ db' = DbUpdate(db, r)
             /\ ret' = sr
             /\ resp' = CreateResponse(req, sr)
             /\ UNCHANGED <<wall, prev, flight, proc>>

\* Handler.update, answering PUT /chargebacks/{id}
ServeUpdate(id, payload, fail) ==
    LET req == Request("PUT", id, payload)
        fn  == UpdateFn(db, id, payload.body, wall)
        r   == IF fail THEN FailCommit(fn) ELSE fn
        sr  == StoreReturn(Call("Update", id, payload.body), r)
    IN  IF id = "" THEN BadRequest(req, "missing id in path")
        ELSE IF ~payload.ok THEN BadRequest(req, "invalid JSON body")
        ELSE /\ db' = DbUpdate(db, r)
             /\ ret' = sr
             /\ resp' = UpdateResponse(req, sr)
             /\ UNCHANGED <<wall, prev, flight, proc>>

\* Handler.delete, answering DELETE /chargebacks/{id}
ServeDelete(id, fail) ==
    LET req == Request("DELETE", id, Payload(FALSE, ZeroChargeback))
        fn  == DeleteFn(db, id)
        r   == IF fail THEN FailCommit(fn) ELSE fn
        sr  == DeleteReturn(Call("Delete", id, ZeroChargeback), r)
    IN  IF id = "" THEN BadRequest(req, "missing id in path")
        ELSE /\ db' = DbUpdate(db, r)
             /\ ret' = sr
             /\ resp' = DeleteResponse(req, sr)
             /\ UNCHANGED <<wall, prev, flight, proc>>

\* Handler.list, answering GET /chargebacks
ServeList ==
    LET req == Request("GET", "", Payload(FALSE, ZeroChargeback))
        sr  == ListReturn(Call("List", "", ZeroChargeback), ListFn(db))
    IN  /\ ret' = sr
        /\ resp' = ListResponse(req, sr.items)
        /\ UNCHANGED <<db, wall, prev, flight, proc>>

\* POST /chargebacks/{id} from any client.
HandleCreate(id, payload, fail) ==
    ServeCreate(id, payload, fail) /\ UNCHANGED submit

\* PUT /chargebacks/{id} from any client.
HandleUpdate(id, payload, fail) ==
    ServeUpdate(id, payload, fail) /\ UNCHANGED submit

\* DELETE /chargebacks/{id} from any client.
HandleDelete(id, fail) == ServeDelete(id, fail) /\ UNCHANGED submit

\* GET /chargebacks from any client.
HandleList == ServeList /\ UNCHANGED submit

\* The path values the requests carry.
PathIDs == {"", "a"}

NextHTTP ==
    \/ \E id \in PathIDs, payload \in Payloads, fail \in BOOLEAN :
         HandleCreate(id, payload, fail)
    \/ \E id \in PathIDs, payload \in Payloads, fail \in BOOLEAN :
         HandleUpdate(id, payload, fail)
    \/ \E id \in PathIDs, fail \in BOOLEAN : HandleDelete(id, fail)
    \/ HandleList
    \/ Tick
    \/ ClockStepBack

SpecHTTP == Init /\ [][NextHTTP]_vars

-----------------------------------------------------------------------------
(* The add dialog: one submit generates an id and starts a mutation, whose  *)
(* attempts React Query repeats after every failure: a request that never   *)
(* reaches the server, a response that is lost, or an answer that is not ok *)
(* (the engine failed to commit).                                           *)

\* "mutations: { retry: 3 }"
MaxRetries == 3

\* The values crypto.randomUUID() returns, in the order of the submits.
DialogIDs == <<"a", "b">>

\* A mutation function that generates the id itself, at every attempt.
MutationIDPerAttempt(m) ==
    IF m.failures = 0 THEN m.id ELSE DialogIDs[(m.n % Len(DialogIDs)) + 1]

\* The id createChargeback is called with: the one handleSubmit generated.
MutationID(m) == m.id

\* A failed attempt: retried while failureCount < retry, an error after that.
Failed(m) ==
    IF m.failures < MaxRetries
    THEN [m EXCEPT !.failures = @ + 1]
    ELSE [m EXCEPT !.state = "error"]

\* handleSubmit: mutation.mutate({ id: newId(), input }).
HandleSubmit(payload) ==
    /\ submit.state # "pending"
    /\ submit.n < Len(DialogIDs)
    /\ payload.ok
    /\ submit' = Mutation(submit.n + 1, DialogIDs[submit.n + 1], payload,
                          0, "pending", NoItem)
    /\ UNCHANGED <<db, wall, ret, prev, flight, resp, proc>>

\* An attempt whose request never reaches the server: fetch rejects.
AttemptLost ==
    /\ submit.state = "pending"
    /\ submit' = Failed(submit)
    /\ UNCHANGED <<db, wall, ret, prev, flight, resp, proc>>

\* An attempt whose request the server handles; the response is delivered
\* or lost, and handleResponse throws unless it is ok.
AttemptServed(delivered, fail) ==
    /\ submit.state = "pending"
    /\ ServeCreate(MutationID(submit), submit.payload, fail)
    /\ LET seen == [submit EXCEPT
                      !.first = IF @ = NoItem /\ resp'.status = 201
                                THEN resp'.item ELSE @]
       IN  submit' = IF delivered /\ resp'.status \in {200, 201}
                     THEN [seen EXCEPT !.state = "success"]
                     ELSE Failed(seen)

NextSubmit ==
    \/ \E payload \in Payloads : HandleSubmit(payload)
    \/ AttemptLost
    \/ \E delivered \in BOOLEAN, fail \in BOOLEAN : AttemptServed(delivered, fail)
    \/ Tick
    \/ ClockStepBack

SpecSubmit == Init /\ [][NextSubmit]_vars

-----------------------------------------------------------------------------
(* The process: main opens the store, serves requests until ListenAndServe  *)
(* returns, and ends. The clock stands still here.                          *)

\* The process has started and main has not yet called store.New.
InitMain ==
    /\ db = <<>>
    /\ wall = 1
    /\ ret = NoReturn
    /\ prev = NoCall
    /\ calls = [g \in Goroutines |-> NoPending]
    /\ tx = [g \in Goroutines |-> NoTx]
    /\ out = [g \in Goroutines |-> NoReturn]
    /\ rwlock = NoGoroutine
    /\ view = NoView
    /\ resp = NoResponse
    /\ submit = NoSubmit
    /\ proc = Process("main", "none")

\* What none of main's own steps changes.
served == <<db, wall, ret, prev, flight, resp, submit>>

\* store.New: bolt.Open fails; main ends in log.Fatalf.
OpenFails ==
    /\ proc = Process("main", "none")
    /\ proc' = Process("exit", "none")
    /\ UNCHANGED served

\* store.New: bolt.Open succeeds, CreateBucketIfNotExists fails, New calls
\* db.Close() and returns the error; main ends in log.Fatalf.
EnsureBucketFails ==
    /\ proc = Process("main", "none")
    /\ proc' = Process("exit", "closed")
    /\ UNCHANGED served

\* store.New succeeds; main defers s.Close() and calls http.ListenAndServe.
NewSucceeds ==
    /\ proc = Process("main", "none")
    /\ proc' = Serving
    /\ UNCHANGED served

\* http.ListenAndServe returns its error; main ends in log.Fatalf, which
\* exits the process without running the deferred s.Close().
ServerStops ==
    /\ proc.pc = "serve"
    /\ proc' = [proc EXCEPT !.pc = "exit"]
    /\ UNCHANGED served

NextMain ==
    \/ OpenFails
    \/ EnsureBucketFails
    \/ NewSucceeds
    \/ ServerStops
    \/ \E id \in PathIDs, payload \in Payloads, fail \in BOOLEAN :
         proc.pc = "serve" /\ HandleCreate(id, payload, fail)
    \/ \E id \in PathIDs, payload \in Payloads, fail \in BOOLEAN :
         proc.pc = "serve" /\ HandleUpdate(id, payload, fail)
    \/ \E id \in PathIDs, fail \in BOOLEAN :
         proc.pc = "serve" /\ HandleDelete(id, fail)
    \/ proc.pc = "serve" /\ HandleList

SpecMain == InitMain /\ [][NextMain]_vars

-----------------------------------------------------------------------------
(* Vocabulary of the properties *)

\* The positions of the bucket that hold key id.
Slots(b, id) == {i \in 1..Len(b) : b[i][1] = id}

Present(b, id) == Slots(b, id) # {}

\* The record stored under a present key.
Stored(b, id) == Unmarshal(b[CHOOSE i \in Slots(b, id) : TRUE][2])

\* The record's client-settable fields equal the body's.
FieldsOf(rec, body) ==
    /\ rec.Amount = body.Amount
    /\ rec.Currency = body.Currency
    /\ rec.Reason = body.Reason

\* This step is a call of store method op returning; ret' holds what it returns.
Returns(op) == wall' = wall /\ prev' = prev /\ ret'.call.op = op

\* This step is a handler answering a request of the given method; resp'
\* holds the answer.
Answers(method) == wall' = wall /\ resp' # resp /\ resp'.req.method = method

-----------------------------------------------------------------------------
(* C1: Create on a present ID returns wasCreated=false with the stored      *)
(* record, whatever the candidate carries, and leaves the store unchanged,  *)
(* so repeated Creates of one ID keep the state of the first, CreatedAt     *)
(* included.                                                                *)
C1_CreatePresentIsNoOp ==
    [][ (Returns("Create") /\ Present(db, ret'.call.id))
        => /\ ret'.err = Nil
           /\ ret'.flag = FALSE
           /\ ret'.rec = Stored(db, ret'.call.id)
           /\ db' = db ]_vars

\* A Create returned created=false for a candidate whose fields and
\* timestamps all differ from the stored record's.
C1_Witness ==
    /\ ret.call.op = "Create"
    /\ ret.err = Nil
    /\ ret.flag = FALSE
    /\ Present(db, ret.call.id)
    /\ ret.rec = Stored(db, ret.call.id)
    /\ ~FieldsOf(ret.rec, ret.call.body)
    /\ ret.call.body.CreatedAt # ret.rec.CreatedAt
    /\ ret.call.body.UpdatedAt # ret.rec.UpdatedAt

(* C2, as claimed: Create on any absent ID returns wasCreated=true and      *)
(* leaves exactly one record under the ID, carrying the candidate's fields  *)
(* and CreatedAt = UpdatedAt = the clock reading; the returned record is    *)
(* the stored one.                                                          *)
CreatedAsAsked ==
    /\ ret'.err = Nil
    /\ ret'.flag = TRUE
    /\ Cardinality(Slots(db', ret'.call.id)) = 1
    /\ FieldsOf(Stored(db', ret'.call.id), ret'.call.body)
    /\ Stored(db', ret'.call.id).ID = ret'.call.id
    /\ Stored(db', ret'.call.id).CreatedAt = wall
    /\ Stored(db', ret'.call.id).UpdatedAt = wall
    /\ ret'.rec = Stored(db', ret'.call.id)

C2_CreateAbsentAnyID ==
    [][ (Returns("Create") /\ ~Present(db, ret'.call.id)) => CreatedAsAsked ]_vars

(* C2, amended: the same for every absent ID that BoltDB accepts as a key;  *)
(* for the empty ID Create fails with the engine's error, returns no record *)
(* and wasCreated=false, and the store is unchanged.                        *)
C2_CreateAbsentValidKey ==
    [][ (Returns("Create") /\ ~Present(db, ret'.call.id))
        => IF ret'.call.id # ""
           THEN CreatedAsAsked
           ELSE /\ ret'.err = ErrKeyRequired
                /\ ret'.rec = Nil
                /\ ret'.flag = FALSE
                /\ db' = db ]_vars

\* A Create made a record, overwriting the timestamps its candidate carried.
C2_Witness ==
    /\ ret.call.op = "Create"
    /\ ret.flag = TRUE
    /\ Present(db, ret.call.id)
    /\ ret.rec = Stored(db, ret.call.id)
    /\ ret.call.body.CreatedAt # ret.rec.CreatedAt
    /\ ret.rec.CreatedAt = ret.rec.UpdatedAt
    /\ Len(db) = 2

(* C3: Update of a present ID with a payload whose Amount, Currency and     *)
(* Reason equal the stored ones returns wasWritten=false and the stored     *)
(* record, and leaves the store, UpdatedAt included, unchanged.             *)
C3_UpdateNoOp ==
    [][ (/\ Returns("Update")
         /\ Present(db, ret'.call.id)
         /\ FieldsOf(Stored(db, ret'.call.id), ret'.call.body))
        => /\ ret'.err = Nil
           /\ ret'.flag = FALSE
           /\ ret'.rec = Stored(db, ret'.call.id)
           /\ db' = db ]_vars

\* An Update skipped its write although the payload's ID and timestamps
\* differ from the stored ones and the clock has moved on since the write.
C3_Witness ==
    /\ ret.call.op = "Update"
    /\ ret.err = Nil
    /\ ret.flag = FALSE
    /\ FieldsOf(ret.rec, ret.call.body)
    /\ ret.call.body.ID # ret.rec.ID
    /\ ret.call.body.UpdatedAt # ret.rec.UpdatedAt
    /\ ret.rec.UpdatedAt # wall

(* C4: Update of a present ID with a payload that differs in Amount,        *)
(* Currency or Reason returns wasWritten=true, stores the payload's three   *)
(* fields, and makes UpdatedAt strictly greater than it was.                *)
C4_UpdateEffect ==
    [][ (/\ Returns("Update")
         /\ Present(db, ret'.call.id)
         /\ ~FieldsOf(Stored(db, ret'.call.id), ret'.call.body))
        => /\ ret'.err = Nil
           /\ ret'.flag = TRUE
           /\ FieldsOf(Stored(db', ret'.call.id), ret'.call.body)
           /\ Stored(db', ret'.call.id).UpdatedAt
                > Stored(db, ret'.call.id).UpdatedAt ]_vars

(* C5: Update of an absent ID fails with NotFound for any payload and       *)
(* leaves the store unchanged; no record is created.                        *)
C5_UpdateAbsentNotFound ==
    [][ (Returns("Update") /\ ~Present(db, ret'.call.id))
        => /\ ret'.err = ErrNotFound
           /\ ret'.rec = Nil
           /\ ret'.flag = FALSE
           /\ db' = db
           /\ ~Present(db', ret'.call.id) ]_vars

\* An Update of an absent ID failed with NotFound next to a stored record.
C5_Witness ==
    /\ ret.call.op = "Update"
    /\ ret.err = ErrNotFound
    /\ ~Present(db, ret.call.id)
    /\ ret.call.id # ""
    /\ Len(db) = 1

(* C6: Delete succeeds on a present and on an absent ID; afterwards the ID  *)
(* is absent and Get of it fails with NotFound; the other records stay, and *)
(* a Delete of an absent ID changes nothing.                                *)
C6_DeleteIdempotent ==
    [][ Returns("Delete")
        => /\ ret'.err = Nil
           /\ ~Present(db', ret'.call.id)
           /\ GetFn(db', ret'.call.id).err = ErrNotFound
           /\ StoreReturn(Call("Get", ret'.call.id, ZeroChargeback),
                          GetFn(db', ret'.call.id)).rec = Nil
           /\ \A id \in IDs \ {ret'.call.id} :
                 /\ Present(db', id) = Present(db, id)
                 /\ Present(db, id) => Stored(db', id) = Stored(db, id)
           /\ ~Present(db, ret'.call.id) => db' = db ]_vars

\* A Delete returned without error; its ID is absent and another record stays.
C6_Witness ==
    /\ ret.call.op = "Delete"
    /\ ret.err = Nil
    /\ ret.call.id # ""
    /\ ~Present(db, ret.call.id)
    /\ Len(db) = 1

(* C7: under any interleaving of clients, re-issuing a Create, Update or    *)
(* Delete with the arguments of an earlier attempt that committed leaves    *)
(* one record per ID at most and makes no write that changes the stored     *)
(* records.                                                                 *)
C7_RetryChangesNothing ==
    [][ (/\ wall' = wall
         /\ prev' = prev
         /\ prev # NoCall
         /\ ret'.call = prev)
        => /\ db' = db
           /\ \A id \in IDs : Cardinality(Slots(db', id)) <= 1 ]_vars

(* C8: in every reachable state the store holds at most one record for any  *)
(* ID, and List returns no two records with the same ID.                    *)
C8_OneRecordPerID ==
    /\ \A id \in IDs : Cardinality(Slots(db, id)) <= 1
    /\ \A i, j \in 1..Len(ListFn(db)) :
          ListFn(db)[i].ID = ListFn(db)[j].ID => i = j

\* Two records are stored, and an Update whose payload named the other
\* record's ID has just written one of them.
C8_Witness ==
    /\ Len(db) = 2
    /\ ret.call.op = "Update"
    /\ ret.flag = TRUE
    /\ ret.call.body.ID # ret.call.id
    /\ Present(db, ret.call.body.ID)

\* The goroutines that called Create(id) while id was absent.
Racers(id) ==
    {g \in Goroutines : /\ calls[g].call.op = "Create"
                        /\ calls[g].call.id = id
                        /\ calls[g].absent}

(* C9: when callers concurrently call Create with the same absent ID, then  *)
(* once they have all returned exactly one of them got wasCreated=true,     *)
(* every one of them got the same record, and the store holds that record,  *)
(* with the fields of the caller that got wasCreated=true.                  *)
C9_ConcurrentCreate ==
    \A id \in IDs \ {""} :
      (Racers(id) # {} /\ \A g \in Racers(id) : out[g] # NoReturn)
      => \E w \in Racers(id) :
           /\ out[w].flag = TRUE
           /\ \A g \in Racers(id) \ {w} : out[g].flag = FALSE
           /\ \A g \in Racers(id) : out[g].err = Nil /\ out[g].rec = out[w].rec
           /\ Cardinality(Slots(db, id)) = 1
           /\ Stored(db, id) = out[w].rec
           /\ FieldsOf(Stored(db, id), calls[w].call.body)

\* Three goroutines called Create with one absent ID and different
\* payloads, and all three have returned.
C9_Witness ==
    \E id \in IDs \ {""} :
      /\ Racers(id) = Goroutines
      /\ \A g \in Goroutines : out[g] # NoReturn
      /\ \A g, h \in Goroutines :
            g # h => ~FieldsOf(calls[g].call.body, calls[h].call.body)

(* C10: while an ID stays present its stored CreatedAt does not change,     *)
(* whatever Create and Update calls are made and whatever timestamps they   *)
(* carry.                                                                   *)
C10_CreatedAtImmutable ==
    [][ \A id \in IDs :
          (Present(db, id) /\ Present(db', id))
          => Stored(db', id).CreatedAt = Stored(db, id).CreatedAt ]_vars

\* An Update carrying timestamps of its own has written a record at a later
\* clock reading than the one the record was created at.
C10_Witness ==
    /\ ret.call.op = "Update"
    /\ ret.flag = TRUE
    /\ ret.call.body.CreatedAt # 0
    /\ ret.rec.CreatedAt # ret.call.body.CreatedAt
    /\ ret.rec.UpdatedAt > ret.rec.CreatedAt
    /\ Stored(db, ret.call.id) = ret.rec

(* C11: in every reachable state every stored record has UpdatedAt >=       *)
(* CreatedAt, whatever readings the wall clock returns.                     *)
C11_UpdatedNotBeforeCreated ==
    \A id \in IDs :
      Present(db, id) => Stored(db, id).UpdatedAt >= Stored(db, id).CreatedAt

(* C12: for every operation on a present record, the stored UpdatedAt       *)
(* changes if and only if Amount, Currency or Reason changed relative to    *)
(* the previously stored value.                                             *)
C12_UpdatedAtIffFieldsChange ==
    [][ \A id \in IDs :
          (Present(db, id) /\ Present(db', id))
          => ( Stored(db', id).UpdatedAt # Stored(db, id).UpdatedAt
               <=> ~FieldsOf(Stored(db', id), Stored(db, id)) ) ]_vars

(* C13: when a write transaction of Create, Update or Delete returns an     *)
(* error (ErrNotFound, a refused Put, a failed commit), the store after the *)
(* call equals the store before it, and Get and List read what they read    *)
(* before the call.                                                         *)
C13_RollbackOnError ==
    [][ ( /\ wall' = wall
          /\ prev' = prev
          /\ ret'.call.op \in WriteOps
          /\ ret'.err # Nil )
        => ( /\ db' = db
             /\ ListFn(db') = ListFn(db)
             /\ \A id \in IDs :
                  /\ GetFn(db', id).err = GetFn(db, id).err
                  /\ GetFn(db', id).result = GetFn(db, id).result ) ]_vars

\* A Create of an absent, valid key put the record and then failed to commit:
\* the key is still absent.
C13_Witness ==
    /\ ret.call.op = "Create"
    /\ ret.call.id # ""
    /\ ret.err = ErrCommit
    /\ ~Present(db, ret.call.id)
    /\ db # <<>>

(* C14: a Get or List whose read transaction began before a Create, Update  *)
(* or Delete committed returns the state as of its beginning and nothing of *)
(* that write; a List never mixes the state before a write with the state   *)
(* after it.                                                                *)
C14_SnapshotReads ==
    [][ (view # NoView /\ view' = NoView)
        => ( /\ ret'.call = view.call
             /\ view.call.op = "Get"
                => LET v == BucketGet(view.snap, view.call.id) IN
                   IF v = Nil
                   THEN ret'.err = ErrNotFound
                   ELSE ret'.err = Nil /\ ret'.rec = Unmarshal(v)
             /\ view.call.op = "List"
                => /\ Len(ret'.items) = Len(view.snap)
                   /\ \A i \in 1..Len(view.snap) :
                        ret'.items[i] = Unmarshal(view.snap[i][2]) ) ]_vars

\* A List returned two records of which the committed bucket now holds
\* neither in that form: writes committed while List was iterating.
C14_Witness ==
    /\ ret.call.op = "List"
    /\ Len(ret.items) = 2
    /\ \A i \in 1..Len(ret.items) :
         ~\E j \in 1..Len(db) : db[j][2] = Marshal(ret.items[i])

(* C15: a Delete leaves nothing under the key, and a Create of a key that   *)
(* was created earlier and deleted since returns created = true and stores  *)
(* the new candidate's fields with CreatedAt = UpdatedAt = the clock         *)
(* reading of this Create, however often the key has been through this.     *)
C15_RecreateAfterDelete ==
    [][ \A id \in IDs :
          /\ (Returns("Delete") /\ ret'.call.id = id /\ Present(db, id))
             => (~Present(db', id) /\ Len(db') = Len(db) - 1)
          /\ ( /\ Returns("Create")
               /\ ret'.call.id = id
               /\ prev.op = "Create"
               /\ prev.id = id
               /\ ~Present(db, id) )
             => ( /\ ret'.err = Nil
                  /\ ret'.flag = TRUE
                  /\ Present(db', id)
                  /\ Stored(db', id) =
                       Chargeback(id, ret'.call.body.Amount,
                                  ret'.call.body.Currency,
                                  ret'.call.body.Reason, wall, wall)
                  /\ ret'.rec = Stored(db', id) ) ]_vars

\* The key was created, deleted, and created again with another amount at a
\* later clock reading.
C15_Witness ==
    /\ prev.op = "Create"
    /\ ret.call.op = "Create"
    /\ ret.call.id = prev.id
    /\ ret.err = Nil
    /\ ret.flag = TRUE
    /\ ret.call.body.Amount # prev.body.Amount
    /\ ret.rec.CreatedAt > 1
    /\ Present(db, prev.id)

(* C16: whenever Update writes, the stored Amount, Currency and Reason are  *)
(* the payload's, zero and empty values included; the returned record has   *)
(* them too.                                                                *)
C16_FullReplace ==
    [][ (Returns("Update") /\ ret'.err = Nil /\ ret'.flag = TRUE)
        => LET id   == ret'.call.id
               body == ret'.call.body
           IN  /\ Present(db', id)
               /\ Stored(db', id).Amount = body.Amount
               /\ Stored(db', id).Currency = body.Currency
               /\ Stored(db', id).Reason = body.Reason
               /\ ret'.rec.Amount = body.Amount
               /\ ret'.rec.Currency = body.Currency
               /\ ret'.rec.Reason = body.Reason ]_vars

\* An Update wrote a payload with an empty Currency; every other payload has
\* a Currency, so the write replaced a non-empty one.
C16_Witness ==
    /\ ret.call.op = "Update"
    /\ ret.err = Nil
    /\ ret.flag = TRUE
    /\ ret.call.body.Currency = ""
    /\ Stored(db, ret.call.id).Currency = ""
    /\ Stored(db, ret.call.id).Amount = ret.call.body.Amount

(* C17: List returns exactly the records present, one per present ID: a    *)
(* non-nil empty slice on an empty store, and a record is in the result if  *)
(* and only if Get of its ID succeeds, with equal fields.                   *)
C17_ListIsThePresentRecords ==
    LET items == ListItems(db).elems IN
    /\ ListItems(db).nil = FALSE
    /\ ((\A id \in IDs : GetFn(db, id).err # Nil) => Len(items) = 0)
    /\ \A id \in IDs :
         GetFn(db, id).err = Nil <=> \E i \in 1..Len(items) : items[i].ID = id
    /\ \A i \in 1..Len(items) :
         /\ GetFn(db, items[i].ID).err = Nil
         /\ GetFn(db, items[i].ID).result = items[i]
    /\ \A i, j \in 1..Len(items) : items[i].ID = items[j].ID => i = j
    /\ ret.call.op = "List" => ret.items = items

\* List returned two records.
C17_Witness ==
    /\ ret.call.op = "List"
    /\ Len(ret.items) = 2
    /\ ret.items[1].ID # ret.items[2].ID

(* C18: executing the same Create, Update or Delete call again, right after *)
(* it returned, produces the same outcome as executing it once: the same    *)
(* error or the same returned record, and the same stored state.            *)
C18_RepeatSameOutcome ==
    [][ ( /\ wall' = wall
          /\ prev' = prev
          /\ ret.call.op \in WriteOps
          /\ ret'.call = ret.call )
        => ( /\ db' = db
             /\ ret'.err = ret.err
             /\ ret.err = Nil => ret'.rec = ret.rec ) ]_vars

\* A Create that committed was executed again at another clock reading and
\* returned the record as created, never updated.
C18_Witness ==
    /\ ret.call.op = "Create"
    /\ prev = ret.call
    /\ ret.err = Nil
    /\ ret.flag = FALSE
    /\ ret.rec.Amount = ret.call.body.Amount
    /\ ret.rec.Currency = ret.call.body.Currency
    /\ ret.rec.Reason = ret.call.body.Reason
    /\ ret.rec.CreatedAt = ret.rec.UpdatedAt
    /\ ret.rec.CreatedAt # wall
    /\ Stored(db, ret.call.id) = ret.rec

(* C19: POST /chargebacks/{id} answers 201 exactly when the store created   *)
(* the record and 200 when the ID already existed, and the JSON body is the *)
(* same in both cases: the answer to a retry right after the creating       *)
(* request carries the body that request was answered with.                 *)
C19_CreateOrFetch ==
    [][ (Answers("POST") /\ resp'.req.id # "")
        => LET id == resp'.req.id IN
           /\ resp'.status = 201 <=> (~Present(db, id) /\ Present(db', id))
           /\ Present(db, id) => resp'.status = 200
           /\ resp'.status \in {200, 201}
              => (Present(db', id) /\ resp'.item = Marshal(Stored(db', id)))
           /\ ( /\ resp.req.method = "POST"
                /\ resp.req.id = id
                /\ resp.status = 201
                /\ Present(db, id) )
              => resp'.item = resp.item ]_vars

(* C19, amended: the same for a POST whose body decodes and whose store     *)
(* call returns no error; a body that does not decode is answered 400 and a *)
(* store error 500, both leaving the store as it was.                       *)
C19_CreateOrFetchDecoded ==
    [][ (Answers("POST") /\ resp'.req.id # "")
        => LET id == resp'.req.id IN
           /\ ~resp'.req.payload.ok => (resp'.status = 400 /\ db' = db)
           /\ (resp'.req.payload.ok /\ ret'.err # Nil)
              => (resp'.status = 500 /\ db' = db)
           /\ (resp'.req.payload.ok /\ ret'.err = Nil)
              => /\ resp'.status = 201
                    <=> (~Present(db, id) /\ Present(db', id))
                 /\ Present(db, id) => resp'.status = 200
                 /\ resp'.status \in {200, 201}
                 /\ Present(db', id)
                 /\ resp'.item = Marshal(Stored(db', id))
                 /\ ( /\ resp.req.method = "POST"
                      /\ resp.req.id = id
                      /\ resp.status = 201
                      /\ Present(db, id) )
                    => resp'.item = resp.item ]_vars

\* A POST with another amount than the stored one, at another clock reading
\* than the record's, was answered 200 with the stored record.
C19_Witness ==
    /\ resp.req.method = "POST"
    /\ resp.req.payload.ok
    /\ resp.status = 200
    /\ Present(db, resp.req.id)
    /\ resp.item = Marshal(Stored(db, resp.req.id))
    /\ Stored(db, resp.req.id).Amount # resp.req.payload.body.Amount
    /\ Stored(db, resp.req.id).CreatedAt # wall

(* C20: PUT /chargebacks/{id} answers 404 exactly when the ID is absent,    *)
(* and otherwise 200 with X-Idempotency-Write "true" if and only if the     *)
(* store wrote (the payload differed from the stored record) and "false"    *)
(* if the write was skipped.                                                *)
C20_Replace ==
    [][ (Answers("PUT") /\ resp'.req.id # "")
        => LET id   == resp'.req.id
               body == resp'.req.payload.body
           IN  /\ resp'.status = 404 <=> ~Present(db, id)
               /\ Present(db, id)
                  => /\ resp'.status = 200
                     /\ resp'.write \in {"true", "false"}
                     /\ resp'.write = "true" <=> db' # db
                     /\ resp'.write = "true"
                        <=> ~( /\ Stored(db, id).Amount = body.Amount
                               /\ Stored(db, id).Currency = body.Currency
                               /\ Stored(db, id).Reason = body.Reason ) ]_vars

(* C20, amended: the same for a PUT whose body decodes and whose store call *)
(* returns no error other than ErrNotFound; a body that does not decode is  *)
(* answered 400 and any other store error 500, both leaving the store as it *)
(* was.                                                                     *)
C20_ReplaceDecoded ==
    [][ (Answers("PUT") /\ resp'.req.id # "")
        => LET id   == resp'.req.id
               body == resp'.req.payload.body
           IN  /\ ~resp'.req.payload.ok => (resp'.status = 400 /\ db' = db)
               /\ (resp'.req.payload.ok /\ ret'.err \notin {Nil, ErrNotFound})
                  => (resp'.status = 500 /\ db' = db)
               /\ (resp'.req.payload.ok /\ ret'.err \in {Nil, ErrNotFound})
                  => /\ resp'.status = 404 <=> ~Present(db, id)
                     /\ Present(db, id)
                        => /\ resp'.status = 200
                           /\ resp'.write \in {"true", "false"}
                           /\ resp'.write = "true" <=> db' # db
                           /\ resp'.write = "true"
                              <=> ~( /\ Stored(db, id).Amount = body.Amount
                                     /\ Stored(db, id).Currency = body.Currency
                                     /\ Stored(db, id).Reason = body.Reason )
                           /\ resp'.item = Marshal(Stored(db', id)) ]_vars

\* A PUT carrying the stored fields was answered 200 with the header "false"
\* and the record as stored.
C20_Witness ==
    /\ resp.req.method = "PUT"
    /\ resp.req.payload.ok
    /\ resp.status = 200
    /\ resp.write = "false"
    /\ Present(db, resp.req.id)
    /\ resp.item = Marshal(Stored(db, resp.req.id))
    /\ Stored(db, resp.req.id).UpdatedAt # wall

(* C21: DELETE /chargebacks/{id} with a non-empty id answers 200 whether or *)
(* not the record existed, answers an error status only when the engine     *)
(* fails (and then leaves the store as it was), and after a 200 the ID is    *)
(* absent.                                                                  *)
C21_DeleteAnswers ==
    [][ (Answers("DELETE") /\ resp'.req.id # "")
        => LET id == resp'.req.id IN
           /\ resp'.status # 200
              => (ret'.err = ErrCommit /\ resp'.status = 500 /\ db' = db)
           /\ ret'.err = Nil => resp'.status = 200
           /\ resp'.status = 200
              => (~Present(db', id) /\ resp'.deleted = id)
           /\ \A other \in IDs \ {id} :
                Present(db', other) <=> Present(db, other) ]_vars

\* A DELETE of a key that no Create ever stored was answered 200.
C21_Witness ==
    /\ resp.req.method = "DELETE"
    /\ resp.req.id # ""
    /\ resp.status = 200
    /\ resp.deleted = resp.req.id
    /\ db = <<>>
    /\ ret.call.op = "Delete"
    /\ ret.err = Nil

(* C22: an Update's compare and write happen in one serialized write        *)
(* transaction: while its transaction is open it holds the writer lock and  *)
(* what it compared against is still the committed record; and when two     *)
(* callers issue Update with the same payload, differing from the stored    *)
(* record, then once both have returned exactly one got wasWritten=true,    *)
(* both got the same record, and the store holds it, stamped once.          *)
C22_ConcurrentUpdate ==
    /\ \A g \in Goroutines :
         (tx[g] # NoTx /\ calls[g].call.op = "Update")
         => LET id   == calls[g].call.id
                body == calls[g].call.body
            IN  /\ rwlock = g
                /\ IF Present(db, id)
                   THEN /\ tx[g].err = Nil
                        /\ tx[g].flag = TRUE
                           <=> ~( /\ Stored(db, id).Amount = body.Amount
                                  /\ Stored(db, id).Currency = body.Currency
                                  /\ Stored(db, id).Reason = body.Reason )
                   ELSE tx[g].err = ErrNotFound
    /\ \A g, h \in Goroutines :
         ( /\ g # h
           /\ calls[g].call.op = "Update"
           /\ calls[h].call = calls[g].call
           /\ ~calls[g].absent
           /\ ~calls[h].absent
           /\ out[g] # NoReturn
           /\ out[h] # NoReturn
           /\ \A k \in Goroutines \ {g, h} : out[k] = NoReturn
           /\ ret.call.op = "Create"
           /\ ret.flag = TRUE
           /\ ~( /\ ret.rec.Amount = calls[g].call.body.Amount
                 /\ ret.rec.Currency = calls[g].call.body.Currency
                 /\ ret.rec.Reason = calls[g].call.body.Reason ) )
         => /\ out[g].err = Nil
            /\ out[h].err = Nil
            /\ out[g].flag # out[h].flag
            /\ out[g].rec = out[h].rec
            /\ Stored(db, calls[g].call.id) = out[g].rec
            /\ out[g].rec.Amount = calls[g].call.body.Amount
            /\ out[g].rec.Currency = calls[g].call.body.Currency
            /\ out[g].rec.Reason = calls[g].call.body.Reason
            /\ out[g].rec.CreatedAt = ret.rec.CreatedAt

\* Two goroutines called Update with one payload on a record that differed
\* from it; both have returned and the record was stamped at another reading
\* than its creation.
C22_Witness ==
    /\ calls["g1"].call.op = "Update"
    /\ calls["g2"].call = calls["g1"].call
    /\ ~calls["g1"].absent
    /\ ~calls["g2"].absent
    /\ out["g1"] # NoReturn
    /\ out["g2"] # NoReturn
    /\ out["g1"].flag # out["g2"].flag
    /\ ret.flag = TRUE
    /\ ret.rec.Amount # calls["g1"].call.body.Amount
    /\ Stored(db, "a").UpdatedAt # Stored(db, "a").CreatedAt

(* C23: one submit of the add dialog generates one id, and every attempt of *)
(* its mutation (the first and up to 3 retries) sends that id and payload:   *)
(* whichever attempts reach the server and whichever responses are lost, no *)
(* record results before an attempt commits, one record at most results     *)
(* from the submit, and it is the record the first committing attempt       *)
(* created, timestamps included.                                            *)
C23_SubmitCreatesOnce ==
    /\ submit.failures <= MaxRetries
    /\ Len(db) <= submit.n
    /\ submit.n > 0
       => /\ submit.id = DialogIDs[submit.n]
          /\ Cardinality(Slots(db, submit.id)) <= 1
          /\ submit.first = NoItem => ~Present(db, submit.id)
          /\ submit.first # NoItem
             => /\ Present(db, submit.id)
                /\ Marshal(Stored(db, submit.id)) = submit.first
                /\ Stored(db, submit.id).Amount = submit.payload.body.Amount
                /\ Stored(db, submit.id).Currency = submit.payload.body.Currency
                /\ Stored(db, submit.id).Reason = submit.payload.body.Reason
          /\ submit.state = "success"
             => (submit.first # NoItem /\ resp.item = submit.first)

\* The mutation succeeded at its last retry: the answer was 200 with the
\* record an earlier attempt had created at another clock reading.
C23_Witness ==
    /\ submit.state = "success"
    /\ submit.failures = MaxRetries
    /\ resp.status = 200
    /\ resp.item = submit.first
    /\ Present(db, submit.id)
    /\ Stored(db, submit.id).CreatedAt # wall

(* C24: the engine is opened once at process start and is closed on every   *)
(* exit path: when the process has ended, no engine handle is left open,    *)
(* neither after a failed start nor after the server stopped with an error. *)
C24_HandleReleased ==
    /\ proc.pc = "main" => proc.handle = "none"
    /\ proc.pc = "serve" => proc.handle = "open"
    /\ proc.pc = "exit" => proc.handle # "open"

(* C25: every record stored under key k has ID = k; an Update that writes   *)
(* leaves the stored ID alone even when the payload carries another ID; and *)
(* a POST that creates stores the record under the path id with that ID,    *)
(* whatever id the request body carries.                                    *)
C25_KeyIsID ==
    [][ /\ \A i \in 1..Len(db') : Unmarshal(db'[i][2]).ID = db'[i][1]
        /\ (Answers("PUT") /\ resp'.status = 200)
           => /\ Present(db', resp'.req.id)
              /\ Stored(db', resp'.req.id).ID = resp'.req.id
              /\ Len(db') = Len(db)
        /\ (Answers("POST") /\ resp'.status = 201)
           => /\ ~Present(db, resp'.req.id)
              /\ Present(db', resp'.req.id)
              /\ Stored(db', resp'.req.id).ID = resp'.req.id
              /\ Len(db') = Len(db) + 1 ]_vars

\* A PUT whose body named another id has written the record.
C25_Witness ==
    /\ resp.req.method = "PUT"
    /\ resp.status = 200
    /\ resp.write = "true"
    /\ resp.req.payload.body.ID \notin {"", resp.req.id}
    /\ Stored(db, resp.req.id).ID = resp.req.id
    /\ Len(db) = 1

(* C26: List returns the records in ascending byte order of their IDs,      *)
(* whatever the order in which they were created or updated, and two Lists  *)
(* with no write between them return the same sequence.                     *)
C26_ListInKeyOrder ==
    [][ /\ \A i, j \in 1..Len(ListFn(db')) :
             i < j => <<ListFn(db')[i].ID, ListFn(db')[j].ID>>
                        \in {<<"", "a">>, <<"", "b">>, <<"a", "b">>}
        /\ Returns("List") => ret'.items = ListFn(db)
        /\ (Returns("List") /\ ret.call.op = "List")
           => ret'.items = ret.items ]_vars

\* List returned the record of "a" before the record of "b", which carries
\* the earlier creation time and the later update time.
C26_Witness ==
    /\ ret.call.op = "List"
    /\ Len(ret.items) = 2
    /\ ret.items[1].ID = "a"
    /\ ret.items[2].ID = "b"
    /\ ret.items[2].CreatedAt < ret.items[1].CreatedAt
    /\ ret.items[2].UpdatedAt > ret.items[1].UpdatedAt

(* C27: the CreatedAt and UpdatedAt a caller supplies never reach the       *)
(* store: every stored timestamp is a clock reading, a Create that creates  *)
(* stamps both with the clock reading, and an Update decides by Amount,     *)
(* Currency and Reason alone and, when it writes, keeps the stored          *)
(* CreatedAt and stamps UpdatedAt with the clock reading.                   *)
C27_ServerTimestamps ==
    [][ /\ \A i \in 1..Len(db') :
             /\ Unmarshal(db'[i][2]).CreatedAt \in Times
             /\ Unmarshal(db'[i][2]).UpdatedAt \in Times
        /\ (Returns("Create") /\ ret'.err = Nil /\ ret'.flag = TRUE)
           => /\ Stored(db', ret'.call.id).CreatedAt = wall
              /\ Stored(db', ret'.call.id).UpdatedAt = wall
        /\ (Returns("Update") /\ Present(db, ret'.call.id))
           => LET id   == ret'.call.id
                  body == ret'.call.body
              IN  /\ ret'.err = Nil
                  /\ ret'.flag = TRUE
                     <=> ~( /\ Stored(db, id).Amount = body.Amount
                            /\ Stored(db, id).Currency = body.Currency
                            /\ Stored(db, id).Reason = body.Reason )
                  /\ ret'.flag = FALSE => db' = db
                  /\ ret'.flag = TRUE
                     => /\ Stored(db', id).CreatedAt = Stored(db, id).CreatedAt
                        /\ Stored(db', id).UpdatedAt = wall ]_vars

\* A Create whose candidate carried timestamps of its own created the
\* record with the clock reading in both.
C27_Witness ==
    /\ ret.call.op = "Create"
    /\ ret.err = Nil
    /\ ret.flag = TRUE
    /\ ret.call.body.CreatedAt # 0
    /\ ret.call.body.UpdatedAt # 0
    /\ ret.call.body.CreatedAt \notin Times
    /\ Stored(db, ret.call.id).CreatedAt = wall
    /\ Stored(db, ret.call.id).UpdatedAt = wall

(* C28: a Create, Update or Delete on one ID, whether it commits or fails,  *)
(* leaves the presence and all six fields of the record of every other ID   *)
(* unchanged.                                                               *)
C28_PerIDFrame ==
    [][ (wall' = wall /\ prev' = prev /\ ret'.call.op \in WriteOps)
        => \A other \in IDs \ {ret'.call.id} :
             /\ Present(db', other) <=> Present(db, other)
             /\ Present(db, other)
                => /\ Stored(db', other).ID = Stored(db, other).ID
                   /\ Stored(db', other).Amount = Stored(db, other).Amount
                   /\ Stored(db', other).Currency = Stored(db, other).Currency
                   /\ Stored(db', other).Reason = Stored(db, other).Reason
                   /\ Stored(db', other).CreatedAt = Stored(db, other).CreatedAt
                   /\ Stored(db', other).UpdatedAt = Stored(db, other).UpdatedAt
       ]_vars

\* An Update of one record, whose payload carried the ID of the other stored
\* record and other fields than that record has, has written.
C28_Witness ==
    /\ ret.call.op = "Update"
    /\ ret.err = Nil
    /\ ret.flag = TRUE
    /\ ret.call.body.ID \notin {"", ret.call.id}
    /\ Present(db, ret.call.body.ID)
    /\ Stored(db, ret.call.body.ID).Amount # ret.call.body.Amount
    /\ Stored(db, ret.call.id).Amount = ret.call.body.Amount

(* C29: Create returns wasCreated=true, and Update wasWritten=true, only    *)
(* when the write transaction committed, the returned record then being the *)
(* stored one; when the transaction fails, also after the closure set the   *)
(* flag (the Put or the commit fails), the call returns the error with the  *)
(* flag false and a nil record, and the store is as it was.                 *)
C29_FlagsAgreeWithCommit ==
    [][ (wall' = wall /\ prev' = prev /\ ret'.call.op \in {"Create", "Update"})
        => /\ ret'.flag = TRUE
              => /\ ret'.err = Nil
                 /\ db' # db
                 /\ Present(db', ret'.call.id)
                 /\ Stored(db', ret'.call.id) = ret'.rec
           /\ ret'.err # Nil
              => /\ ret'.flag = FALSE
                 /\ ret'.rec = Nil
                 /\ db' = db ]_vars

\* A Create set its flag and its Put failed: the call returned the engine's
\* error with the flag false.
C29_Witness ==
    /\ ret.call.op = "Create"
    /\ ret.err = ErrKeyRequired
    /\ ret.flag = FALSE
    /\ CreateFn(db, [ret.call.body EXCEPT !.ID = ret.call.id], wall).flag = TRUE

====
